---- MODULE Spec2Model ----
(***************************************************************************)
(* PipestatManager (src/pipestat/pipestat.py): a schema-validated result   *)
(* store with a YAML file back-end (YacAttMap, locked read-modify-write)   *)
(* and a PostgreSQL back-end (one table per namespace, one connection per  *)
(* cursor block).  Managers are separate objects, possibly in separate     *)
(* processes, that share the backing file and the database table.          *)
(***************************************************************************)
EXTENDS Integers, Sequences, FiniteSets, TLC

\* ------------------------------------------------------------------ bounds
MaxReports == 2

\* ------------------------------------------------------------------ inputs
Mgrs == {"m1", "m2"}
OneMgr == {"m1"}
NoMgr == "nobody"

Records == {"sample1", "sample2"}

\* the schema of the spec's scenario: result identifier -> declared type
Schema == [alignment_rate |-> "number", cover_image |-> "image"]
KnownResults == DOMAIN Schema
ResultArgs == KnownResults \cup {"unknown_result"}

Attrs == {"path", "thumbnail_path", "title"}

\* required attributes by declared type (ATTRS_BY_TYPE of const.py)
ATTRS_BY_TYPE == [number |-> {}, image |-> Attrs]

\* A reported value: its Python kind, the attribute names `attr in value`
\* finds in it (keys of a mapping, items of a list, substrings of a string)
\* and a payload that tells two values of one kind apart.
Val(kind, has, n) == [kind |-> kind, has |-> has, n |-> n]
Values ==
    { Val("number", {}, 92), Val("number", {}, 50), Val("string", {}, 1),
      Val("mapping", {"path"}, 1), Val("mapping", Attrs, 2) }

\* the record and the values the writers of the two-manager specification
\* report
WriterRecords == {"sample1"}
WriterValues == { Val("number", {}, 92), Val("mapping", Attrs, 2) }

NULL == Val("null", {}, 0)

\* ------------------------------------------------------------------ state
VARIABLES
    st,          \* st[m]: back-end of manager object m: "none", "file", "db"
    data,        \* data[m]: self[DATA_KEY], the in-memory YacAttMap
    ro,          \* ro[m]: the YacAttMap is read-only (holds no lock)
    disk,        \* the YAML document in the backing file
    lock,        \* who created the lock file of the backing file, or NoMgr
    tableExists, \* the table named after the namespace exists
    rows,        \* the table's rows, in insertion order
    conn,        \* conn[m]: "Disconnected" or "Connected" (DB_CONNECTION_KEY)
    pc,          \* pc[m]: the handler m is in and its position
    call,        \* call[m]: arguments of the report m is executing
    ret,         \* ret[m]: how m's last finished call ended
    nrep,        \* nrep[m]: report calls made by m
    cfg,         \* cfg[m]: the constructor arguments m's process passes
    okval,       \* file: triple -> value of the report that returned true
    latest,      \* db: (record, result) -> value of the latest true report
    opened       \* opened[m]: what opened m's open connection

fileVars == <<data, ro, disk, lock>>
dbVars == <<tableExists, rows, conn, opened>>
histVars == <<okval, latest>>
vars == <<st, data, ro, disk, lock, tableExists, rows, conn, pc, call, ret,
          nrep, cfg, okval, latest, opened>>

\* ------------------------------------------------------- in-memory mapping
EmptyMap == [x \in {} |-> x]
EmptyTree == [ns |-> FALSE, recs |-> EmptyMap]

Has(tree, rec, res) ==
    /\ tree.ns
    /\ rec \in DOMAIN tree.recs
    /\ res \in DOMAIN tree.recs[rec]

Get(tree, rec, res) == IF Has(tree, rec, res) THEN tree.recs[rec][res] ELSE NULL

SetDefault(f, k) == [x \in DOMAIN f \cup {k} |-> IF x \in DOMAIN f THEN f[x] ELSE EmptyMap]

SetItem(f, k, v) == [x \in DOMAIN f \cup {k} |-> IF x = k THEN v ELSE f[x]]

\* lines 312-315: setdefault(name), setdefault(record), [result] = value
Put(tree, rec, res, v) ==
    LET recs1 == SetDefault(tree.recs, rec)
    IN  [ns |-> TRUE, recs |-> SetItem(recs1, rec, SetItem(recs1[rec], res, v))]

\* ------------------------------------------------------------ YAML on disk
YamlTag == [number |-> "!!int", boolean |-> "!!bool", string |-> "!!str",
            list |-> "!!seq", mapping |-> "!!map"]

ToYamlAsString(v) == [tag |-> "!!str", keys |-> v.has, text |-> v.n]

\* YacAttMap.write (line 316): a value as a YAML node
ToYaml(v) == [tag |-> YamlTag[v.kind], keys |-> v.has, text |-> v.n]

FromYaml(y) ==
    LET kind == CHOOSE k \in DOMAIN YamlTag : YamlTag[k] = y.tag
    IN  Val(kind, y.keys, y.text)

NoYaml == [tag |-> "", keys |-> {}, text |-> 0]

\* the document: one node for the namespace key, one per record key, one
\* per result key with its serialized value
Dump(tree) ==
    IF ~tree.ns THEN {}
    ELSE {[k |-> "ns", rec |-> "", res |-> "", val |-> NoYaml]}
         \cup {[k |-> "rec", rec |-> r, res |-> "", val |-> NoYaml] : r \in DOMAIN tree.recs}
         \cup UNION {{[k |-> "val", rec |-> r, res |-> x, val |-> ToYaml(tree.recs[r][x])]
                       : x \in DOMAIN tree.recs[r]} : r \in DOMAIN tree.recs}

Load(doc) ==
    [ns |-> \E e \in doc : e.k = "ns",
     recs |-> [r \in {e.rec : e \in {d \in doc : d.k = "rec"}} |->
                 [x \in {e.res : e \in {d \in doc : d.k = "val" /\ d.rec = r}} |->
                    FromYaml((CHOOSE e \in doc : e.k = "val" /\ e.rec = r /\ e.res = x).val)]]]

\* -------------------------------------------------------------- validation
IsMapping(v) == v.kind = "mapping"

\* `attr in value` (line 299)
Contains(v, a) == a \in v.has

\* lines 295-302 of report: the required attributes of the result's type.
\* `isinstance(value, Mapping) or all([attr in value ...])`: the list is
\* built only for a value that is no mapping, and `in` raises TypeError on
\* a value that is no container.
ValidateAttrs(res, v) ==
    LET attrs == ATTRS_BY_TYPE[Schema[res]]
    IN  IF attrs = {} THEN "ok"
        ELSE IF IsMapping(v) THEN "ok"
        ELSE IF v.kind \in {"number", "boolean"} THEN "TypeError"
        ELSE IF \A a \in attrs : Contains(v, a) THEN "ok"
        ELSE "ValueError"

ValidateKnownOnly(res, v) ==
    IF res \notin KnownResults THEN "ok" ELSE ValidateAttrs(res, v)

\* lines 290-302 of report: "ok" or the exception raised
Validate(res, v) ==
    IF res \notin KnownResults THEN "SchemaError" ELSE ValidateAttrs(res, v)

AlreadyReportedNever(tree, rec, res) == FALSE

\* lines 304-306: name in data, record in data[name], result in the record
AlreadyReported(tree, rec, res) == Has(tree, rec, res)

\* ---------------------------------------------------------------- the table
NullCols == [x \in KnownResults |-> NULL]

\* INSERT INTO name (record_identifier) VALUES (%s)
NewRow(rec) == [rid |-> rec, cols |-> NullCols]

InsertRowUnlessPresent(t, rec) ==
    IF \E i \in 1..Len(t) : t[i].rid = rec THEN t ELSE Append(t, NewRow(rec))

\* the INSERT of _report_postgres (lines 257-262): one more row
InsertRow(t, rec) == Append(t, NewRow(rec))

CheckRecordNone(t, rec) == FALSE

\* SELECT EXISTS(SELECT 1 FROM name WHERE record_identifier=%s)
CheckRecord(t, rec) == \E i \in 1..Len(t) : t[i].rid = rec

\* line 274: mappings are bound as Json, everything else as it is
Adapt(v) == IF IsMapping(v) THEN [v EXCEPT !.kind = "json"] ELSE v

UpdateRowsIfNull(t, rec, res, v) ==
    [i \in 1..Len(t) |->
        IF t[i].rid = rec /\ t[i].cols[res] = NULL
        THEN [t[i] EXCEPT !.cols[res] = v] ELSE t[i]]

UpdateRowsNoWhere(t, rec, res, v) ==
    [i \in 1..Len(t) |-> [t[i] EXCEPT !.cols[res] = v]]

\* UPDATE name SET column=%s WHERE record_identifier=%s
UpdateRows(t, rec, res, v) ==
    [i \in 1..Len(t) |->
        IF t[i].rid = rec THEN [t[i] EXCEPT !.cols[res] = v] ELSE t[i]]

\* -------------------------------------------------------------- positions
Idle == [h |-> "idle", op |-> "", ph |-> "", err |-> "", res |-> FALSE,
         cnt |-> 0, connFail |-> FALSE, absent |-> FALSE]

At(m, h, op, ph) == pc[m].h = h /\ pc[m].op = op /\ pc[m].ph = ph

NoCall == [rec |-> "", res |-> "", val |-> NULL]

Ret(h, out) == [h |-> h, out |-> out, cnt |-> 0, connFail |-> FALSE, absent |-> FALSE]
NoRet == Ret("", "")

\* constructor arguments: db_file_path given, db_config_path given, and
\* whether the DB config holds every key of DB_CREDENTIALS
Configs ==
    { [file |-> TRUE, db |-> FALSE, complete |-> FALSE],
      [file |-> TRUE, db |-> TRUE, complete |-> TRUE],
      [file |-> FALSE, db |-> TRUE, complete |-> TRUE],
      [file |-> FALSE, db |-> TRUE, complete |-> FALSE],
      [file |-> FALSE, db |-> FALSE, complete |-> FALSE] }

InitDocs ==
    { Dump(EmptyTree),
      Dump(Put(EmptyTree, "sample1", "alignment_rate", Val("number", {}, 92))) }

InitTables ==
    { <<>>, <<NewRow("sample1")>> }

Init ==
    /\ \E c \in Configs : cfg = [m \in Mgrs |-> c]
    /\ st = [m \in Mgrs |-> "none"]
    /\ data = [m \in Mgrs |-> EmptyTree]
    /\ ro = [m \in Mgrs |-> TRUE]
    /\ disk \in (IF cfg["m1"].file THEN InitDocs ELSE {Dump(EmptyTree)})
    /\ lock = NoMgr
    /\ tableExists \in (IF cfg["m1"].file THEN {TRUE} ELSE BOOLEAN)
    /\ rows \in (IF cfg["m1"].file THEN {<<NewRow("sample1")>>} ELSE InitTables)
    /\ (~tableExists => rows = <<>>)
    /\ conn = [m \in Mgrs |-> "Disconnected"]
    /\ pc = [m \in Mgrs |-> Idle]
    /\ call = [m \in Mgrs |-> NoCall]
    /\ ret = [m \in Mgrs |-> NoRet]
    /\ nrep = [m \in Mgrs |-> 0]
    /\ okval = [t \in Records \X KnownResults |-> NULL]
    /\ latest = [t \in Records \X KnownResults |-> NULL]
    /\ opened = [m \in Mgrs |-> "none"]

\* ------------------------------------------------------------ construction
BackendConfigFirst(filePath, cfgPath, cfgComplete) ==
    IF cfgPath
    THEN IF cfgComplete THEN "db" ELSE "MissingConfigDataError"
    ELSE IF filePath THEN "file" ELSE "MissingConfigDataError"

\* the branches of __init__ (lines 95-107): the back-end the constructor
\* arguments select, or the error raised before any back-end is touched
Backend(filePath, cfgPath, cfgComplete) ==
    IF filePath THEN "file"
    ELSE IF cfgPath
    THEN IF cfgComplete THEN "db" ELSE "MissingConfigDataError"
    ELSE "MissingConfigDataError"

\* __init__ (lines 90-107): a file path selects the file back-end, else a
\* DB config selects the relational one, whose constructor initializes the
\* table; the new object replaces the manager's previous object.  A process
\* constructs its manager with the same arguments every time.
Construct(m, filePath, cfgPath, cfgComplete) ==
    /\ pc[m].h = "idle"
    /\ cfg[m] = [file |-> filePath, db |-> cfgPath, complete |-> cfgComplete]
    /\ cfg' = cfg
    /\ ro' = [ro EXCEPT ![m] = TRUE]
    /\ conn' = [conn EXCEPT ![m] = "Disconnected"]
    /\ opened' = [opened EXCEPT ![m] = "none"]
    /\ IF Backend(filePath, cfgPath, cfgComplete) = "file"
       THEN /\ st' = [st EXCEPT ![m] = "file"]
            /\ data' = [data EXCEPT ![m] = Load(disk)]
            /\ ret' = [ret EXCEPT ![m] = Ret("construct", "file")]
            /\ pc' = [pc EXCEPT ![m] = Idle]
       ELSE IF Backend(filePath, cfgPath, cfgComplete) = "db"
       THEN /\ st' = [st EXCEPT ![m] = "db"]
            /\ data' = [data EXCEPT ![m] = EmptyTree]
            /\ pc' = [pc EXCEPT ![m] =
                        [Idle EXCEPT !.h = "construct", !.op = "table_exists", !.ph = "enter"]]
            /\ ret' = ret
       ELSE /\ st' = [st EXCEPT ![m] = "none"]
            /\ data' = [data EXCEPT ![m] = EmptyTree]
            /\ ret' = [ret EXCEPT ![m] =
                         Ret("construct", Backend(filePath, cfgPath, cfgComplete))]
            /\ pc' = [pc EXCEPT ![m] = Idle]
    /\ UNCHANGED <<disk, lock, tableExists, rows, call, nrep, okval, latest>>

\* ------------------------------------------------------------------ report
\* report, lines 290-310 and 318-320: validation, then on the file back-end
\* the existence test on the in-memory data, on the relational back-end the
\* call of _report_postgres
Report(m, rec, res, v) ==
    /\ pc[m].h = "idle"
    /\ st[m] \in {"file", "db"}
    /\ nrep[m] < MaxReports
    /\ nrep' = [nrep EXCEPT ![m] = @ + 1]
    /\ LET chk == Validate(res, v)
           args == [rec |-> rec, res |-> res, val |-> v]
       IN  IF chk # "ok"
           THEN /\ ret' = [ret EXCEPT ![m] = Ret("report", chk)]
                /\ UNCHANGED <<pc, call>>
           ELSE IF st[m] = "file"
           THEN IF AlreadyReported(data[m], rec, res)
                THEN /\ ret' = [ret EXCEPT ![m] = Ret("report", "false")]
                     /\ UNCHANGED <<pc, call>>
                ELSE /\ pc' = [pc EXCEPT ![m] =
                                [Idle EXCEPT !.h = "report", !.op = "file", !.ph = "make_writable"]]
                     /\ call' = [call EXCEPT ![m] = args]
                     /\ ret' = ret
           ELSE /\ pc' = [pc EXCEPT ![m] =
                            [Idle EXCEPT !.h = "report", !.op = "check_record", !.ph = "enter"]]
                /\ call' = [call EXCEPT ![m] = args]
                /\ ret' = ret
    /\ UNCHANGED <<st, fileVars, dbVars, cfg, histVars>>

ReloadKeep(mem, doc) == mem

\* line 311, YacAttMap.make_writable: the data after the lock is taken is
\* the file's content, read again
Reload(mem, doc) == Load(doc)

\* line 311, YacAttMap.make_writable: wait for the lock file to be gone,
\* create it and re-read the file; nothing to do on a writable object
MakeWritable(m) ==
    /\ At(m, "report", "file", "make_writable")
    /\ IF ro[m]
       THEN /\ lock = NoMgr
            /\ lock' = m
            /\ ro' = [ro EXCEPT ![m] = FALSE]
            /\ data' = [data EXCEPT ![m] = Reload(@, disk)]
       ELSE UNCHANGED <<lock, ro, data>>
    /\ pc' = [pc EXCEPT ![m].ph = "write"]
    /\ UNCHANGED <<st, disk, dbVars, call, ret, nrep, cfg, histVars>>

\* lines 312-316: the nested assignment and YacAttMap.write; a write that
\* fails raises out of report with the object left writable
Write(m, ok) ==
    /\ At(m, "report", "file", "write")
    /\ data' = [data EXCEPT ![m] = Put(@, call[m].rec, call[m].res, call[m].val)]
    /\ IF ok
       THEN /\ disk' = Dump(data'[m])
            /\ pc' = [pc EXCEPT ![m].ph = "make_readonly"]
            /\ ret' = ret
       ELSE /\ disk' = disk
            /\ pc' = [pc EXCEPT ![m] = Idle]
            /\ ret' = [ret EXCEPT ![m] = Ret("report", "OSError")]
    /\ call' = [call EXCEPT ![m] = IF ok THEN @ ELSE NoCall]
    /\ UNCHANGED <<st, ro, lock, dbVars, nrep, cfg, histVars>>

\* lines 317 and 321-324: YacAttMap.make_readonly removes the lock file,
\* report returns True
MakeReadonly(m) ==
    /\ At(m, "report", "file", "make_readonly")
    /\ lock' = NoMgr
    /\ ro' = [ro EXCEPT ![m] = TRUE]
    /\ pc' = [pc EXCEPT ![m] = Idle]
    /\ ret' = [ret EXCEPT ![m] = Ret("report", "true")]
    /\ okval' = [okval EXCEPT ![<<call[m].rec, call[m].res>>] = call[m].val]
    /\ call' = [call EXCEPT ![m] = NoCall]
    /\ UNCHANGED <<st, data, disk, dbVars, nrep, cfg, latest>>

\* ------------------------------------------------------- relational back-end
\* how a handler that ends at position p is recorded
RetOf(p, out) ==
    [Ret(p.h, out) EXCEPT !.cnt = p.cnt, !.connFail = p.connFail, !.absent = p.absent]

CloseConnectionLeak(c) == c

\* close_postgres_connection, lines 378-379: close the handle and delete it
CloseConnection(c) == "Disconnected"

\* the value list.append returns (line 191: FIXED_COLUMNS.append(...))
ListAppend(l, x) == "None"

\* ','.join(columns) (line 193): the column list, or no string for None
JoinColumns(columns) == IF columns = "None" THEN "TypeError" ELSE "ok"

CheckConnectionAnyBackend(m) ==
    IF conn[m] = "Connected" THEN "true" ELSE "false"

\* check_connection (lines 326-338): "raise" on a file-backed manager
CheckConnection(m) ==
    IF st[m] = "file" THEN "PipestatDatabaseError"
    ELSE IF conn[m] = "Connected" THEN "true" ELSE "false"

\* db_cursor, lines 168-172: open a connection unless one is open.  A connect
\* that fails raises inside the try, and the finally clause then calls
\* close_postgres_connection on a manager that has no connection; on a
\* file-backed manager check_connection raises, in the try and in the finally.
DbEnter(m, ok) ==
    /\ pc[m].h # "idle"
    /\ pc[m].ph = "enter"
    /\ IF CheckConnection(m) = "true"
       THEN /\ pc' = [pc EXCEPT ![m].ph = "body"]
            /\ UNCHANGED <<conn, opened, ret, st, call>>
       ELSE IF CheckConnection(m) = "PipestatDatabaseError"
       THEN /\ ret' = [ret EXCEPT ![m] = RetOf(pc[m], "PipestatDatabaseError")]
            /\ pc' = [pc EXCEPT ![m] = Idle]
            /\ call' = [call EXCEPT ![m] = NoCall]
            /\ UNCHANGED <<conn, opened, st>>
       ELSE IF ok
       THEN /\ conn' = [conn EXCEPT ![m] = "Connected"]
            /\ opened' = [opened EXCEPT ![m] = "db_cursor"]
            /\ pc' = [pc EXCEPT ![m].ph = "body"]
            /\ UNCHANGED <<ret, st, call>>
       ELSE /\ ret' = [ret EXCEPT ![m] =
                         RetOf([pc[m] EXCEPT !.connFail = TRUE], "PipestatDatabaseError")]
            /\ st' = [st EXCEPT ![m] = IF pc[m].h = "construct" THEN "none" ELSE @]
            /\ pc' = [pc EXCEPT ![m] = Idle]
            /\ call' = [call EXCEPT ![m] = NoCall]
            /\ UNCHANGED <<conn, opened>>
    /\ UNCHANGED <<fileVars, tableExists, rows, nrep, cfg, histVars>>

ExecuteSwallow(fails) == ""

\* LoggingCursor.execute, lines 43-47: the error of a statement that the
\* driver fails is logged and raised again; "" for no error
Execute(fails) == IF fails THEN "psycopg2.Error" ELSE ""

\* the statement of a cursor block (LoggingCursor.execute) and the commit
\* of the connection's with-block; a failing statement is rolled back.
\* Whether a statement fails is the database's answer: an INSERT of a
\* record_identifier that has a row fails on a table that constrains the
\* column and succeeds on one that does not.
DbBody(m, ok) ==
    /\ pc[m].h # "idle"
    /\ pc[m].ph = "body"
    /\ LET op == pc[m].op
           fails == \/ ~ok
                    \/ op # "table_exists" /\ ~tableExists
                    \/ op = "update" /\ call[m].res \notin KnownResults
           columns == ListAppend("FIXED_COLUMNS", "schema_to_columns")
       IN  IF op = "create"
           THEN /\ IF JoinColumns(columns) = "ok" /\ ~fails
                   THEN /\ tableExists' = TRUE
                        /\ pc' = [pc EXCEPT ![m].ph = "exit"]
                   ELSE /\ tableExists' = tableExists
                        /\ pc' = [pc EXCEPT ![m].ph = "exit",
                                            ![m].err = IF JoinColumns(columns) = "ok"
                                                       THEN "psycopg2.Error"
                                                       ELSE JoinColumns(columns)]
                /\ rows' = rows
           ELSE IF Execute(fails) # ""
           THEN /\ pc' = [pc EXCEPT ![m].ph = "exit", ![m].err = Execute(fails)]
                /\ UNCHANGED <<tableExists, rows>>
           ELSE /\ tableExists' = tableExists
                /\ CASE op = "table_exists" ->
                          /\ pc' = [pc EXCEPT ![m].ph = "exit", ![m].res = tableExists,
                                              ![m].absent = ~tableExists]
                          /\ rows' = rows
                     [] op = "check_record" ->
                          /\ pc' = [pc EXCEPT ![m].ph = "exit",
                                              ![m].res = CheckRecord(rows, call[m].rec)]
                          /\ rows' = rows
                     [] op = "insert" ->
                          /\ pc' = [pc EXCEPT ![m].ph = "exit"]
                          /\ rows' = InsertRow(rows, call[m].rec)
                     [] op = "update" ->
                          /\ pc' = [pc EXCEPT ![m].ph = "exit"]
                          /\ rows' = UpdateRows(rows, call[m].rec, call[m].res,
                                                Adapt(call[m].val))
                     [] op = "count" ->
                          /\ pc' = [pc EXCEPT ![m].ph = "exit", ![m].cnt = Len(rows)]
                          /\ rows' = rows
    /\ UNCHANGED <<st, fileVars, conn, opened, call, ret, nrep, cfg, histVars>>

NextOpInsertAlways(p) ==
    CASE p.op = "table_exists" -> IF p.res THEN [op |-> "", out |-> "false"]
                                  ELSE [op |-> "create", out |-> ""]
      [] p.op = "create" -> [op |-> "", out |-> "true"]
      [] p.op = "check_record" -> [op |-> "insert", out |-> ""]
      [] p.op = "insert" -> [op |-> "update", out |-> ""]
      [] p.op = "update" -> [op |-> "", out |-> "true"]
      [] p.op = "count" -> [op |-> "", out |-> "count"]

\* where a handler goes after a cursor block that ended normally:
\* the next cursor block, or "" with the handler's return value
NextOp(p) ==
    CASE p.op = "table_exists" -> IF p.res THEN [op |-> "", out |-> "false"]
                                  ELSE [op |-> "create", out |-> ""]
      [] p.op = "create" -> [op |-> "", out |-> "true"]
      [] p.op = "check_record" -> IF p.res THEN [op |-> "update", out |-> ""]
                                  ELSE [op |-> "insert", out |-> ""]
      [] p.op = "insert" -> [op |-> "update", out |-> ""]
      [] p.op = "update" -> [op |-> "", out |-> "true"]
      [] p.op = "count" -> [op |-> "", out |-> "count"]

\* db_cursor, lines 174-177: the finally clause closes the connection; the
\* handler then raises the block's error, enters its next block or returns
DbExit(m) ==
    /\ pc[m].h # "idle"
    /\ pc[m].ph = "exit"
    /\ conn' = [conn EXCEPT ![m] = CloseConnection(@)]
    /\ opened' = [opened EXCEPT ![m] = IF conn'[m] = "Connected" THEN @ ELSE "none"]
    /\ LET p == pc[m]
           nxt == NextOp(p)
       IN  IF p.err # ""
           THEN /\ ret' = [ret EXCEPT ![m] = RetOf(p, p.err)]
                /\ st' = [st EXCEPT ![m] = IF p.h = "construct" THEN "none" ELSE @]
                /\ pc' = [pc EXCEPT ![m] = Idle]
                /\ call' = [call EXCEPT ![m] = NoCall]
                /\ latest' = latest
           ELSE IF nxt.op # ""
           THEN /\ pc' = [pc EXCEPT ![m].op = nxt.op, ![m].ph = "enter"]
                /\ UNCHANGED <<ret, st, latest, call>>
           ELSE /\ ret' = [ret EXCEPT ![m] =
                             RetOf(p, IF p.h = "construct" THEN "db" ELSE nxt.out)]
                /\ pc' = [pc EXCEPT ![m] = Idle]
                /\ call' = [call EXCEPT ![m] = NoCall]
                /\ st' = st
                /\ latest' = IF p.h = "report"
                             THEN [latest EXCEPT ![<<call[m].rec, call[m].res>>] = call[m].val]
                             ELSE latest
    /\ UNCHANGED <<fileVars, tableExists, rows, nrep, cfg, okval>>

\* _init_postgres_table (lines 179-195) called on a constructed manager
InitTable(m) ==
    /\ pc[m].h = "idle"
    /\ st[m] \in {"file", "db"}
    /\ pc' = [pc EXCEPT ![m] =
                [Idle EXCEPT !.h = "init_table", !.op = "table_exists", !.ph = "enter"]]
    /\ UNCHANGED <<st, fileVars, dbVars, call, ret, nrep, cfg, histVars>>

\* __str__ (lines 115-121) on the relational back-end: _count_rows
CountRows(m) ==
    /\ pc[m].h = "idle"
    /\ st[m] = "db"
    /\ pc' = [pc EXCEPT ![m] = [Idle EXCEPT !.h = "count", !.op = "count", !.ph = "enter"]]
    /\ UNCHANGED <<st, fileVars, dbVars, call, ret, nrep, cfg, histVars>>

\* establish_postgres_connection (lines 340-368), called by the user
Establish(m, suppress, ok) ==
    /\ pc[m].h = "idle"
    /\ st[m] \in {"file", "db"}
    /\ pc' = pc
    /\ IF CheckConnection(m) # "false"
       THEN /\ ret' = [ret EXCEPT ![m] = Ret("establish", "PipestatDatabaseError")]
            /\ UNCHANGED <<conn, opened>>
       ELSE IF ok
       THEN /\ conn' = [conn EXCEPT ![m] = "Connected"]
            /\ opened' = [opened EXCEPT ![m] = "establish"]
            /\ ret' = [ret EXCEPT ![m] = Ret("establish", "true")]
       ELSE /\ ret' = [ret EXCEPT ![m] =
                         [Ret(IF suppress THEN "establish_suppress" ELSE "establish",
                              IF suppress THEN "false" ELSE "psycopg2.Error")
                            EXCEPT !.connFail = TRUE]]
            /\ UNCHANGED <<conn, opened>>
    /\ UNCHANGED <<st, fileVars, tableExists, rows, call, nrep, cfg, histVars>>

\* close_postgres_connection (lines 370-381), called by the user
Close(m) ==
    /\ pc[m].h = "idle"
    /\ st[m] \in {"file", "db"}
    /\ pc' = pc
    /\ IF CheckConnection(m) # "true"
       THEN /\ ret' = [ret EXCEPT ![m] = Ret("close", "PipestatDatabaseError")]
            /\ UNCHANGED <<conn, opened>>
       ELSE /\ conn' = [conn EXCEPT ![m] = CloseConnection(@)]
            /\ opened' = [opened EXCEPT ![m] = IF conn'[m] = "Connected" THEN @ ELSE "none"]
            /\ ret' = [ret EXCEPT ![m] = Ret("close", "none")]
    /\ UNCHANGED <<st, fileVars, tableExists, rows, call, nrep, cfg, histVars>>

\* --------------------------------------------------------- specifications
MgrNext(m) ==
    \/ \E f, c, k \in BOOLEAN : Construct(m, f, c, k)
    \/ \E rec \in Records, res \in ResultArgs, v \in Values : Report(m, rec, res, v)
    \/ MakeWritable(m)
    \/ \E ok \in BOOLEAN : Write(m, ok)
    \/ MakeReadonly(m)
    \/ \E ok \in BOOLEAN : DbEnter(m, ok)
    \/ \E ok \in BOOLEAN : DbBody(m, ok)
    \/ DbExit(m)
    \/ InitTable(m)
    \/ CountRows(m)
    \/ \E s, ok \in BOOLEAN : Establish(m, s, ok)
    \/ Close(m)

\* one manager
Next == \E m \in OneMgr : MgrNext(m)

Spec == Init /\ [][Next]_vars

\* two writers on the same file or the same table: each constructs its
\* manager and reports
WriterNext(m) ==
    \/ \E f, c, k \in BOOLEAN : Construct(m, f, c, k)
    \/ \E rec \in WriterRecords, res \in KnownResults, v \in WriterValues : Report(m, rec, res, v)
    \/ MakeWritable(m)
    \/ \E ok \in BOOLEAN : Write(m, ok)
    \/ MakeReadonly(m)
    \/ \E ok \in BOOLEAN : DbEnter(m, ok)
    \/ \E ok \in BOOLEAN : DbBody(m, ok)
    \/ DbExit(m)

Next2 == \E m \in Mgrs : WriterNext(m)

Spec2 == Init /\ [][Next2]_vars

\* two writers on the same file, each reporting a result of its own
WriterResult == [m1 |-> "alignment_rate", m2 |-> "cover_image"]

FileWriterNext(m) ==
    \/ \E f, c, k \in BOOLEAN : Construct(m, f, c, k)
    \/ \E rec \in WriterRecords, v \in WriterValues : Report(m, rec, WriterResult[m], v)
    \/ MakeWritable(m)
    \/ \E ok \in BOOLEAN : Write(m, ok)
    \/ MakeReadonly(m)

InitFile == Init /\ \A m \in Mgrs : cfg[m].file

NextFile == \E m \in Mgrs : FileWriterNext(m)

SpecFile == InitFile /\ [][NextFile]_vars

\* two writers on the same table, each reporting a result of its own for
\* the one record
DbWriterNext(m) ==
    \/ \E f, c, k \in BOOLEAN : Construct(m, f, c, k)
    \/ \E rec \in WriterRecords, v \in WriterValues : Report(m, rec, WriterResult[m], v)
    \/ \E ok \in BOOLEAN : DbEnter(m, ok)
    \/ \E ok \in BOOLEAN : DbBody(m, ok)
    \/ DbExit(m)

InitDb == Init /\ \A m \in Mgrs : ~cfg[m].file /\ cfg[m].db /\ cfg[m].complete

NextDb == \E m \in Mgrs : DbWriterNext(m)

SpecDb == InitDb /\ [][NextDb]_vars

\* one file-backed manager reporting values of every kind: number, boolean,
\* string, list and mapping, the containers with none, some or all of the
\* required attributes of an image
AllKinds ==
    Values \cup
    { Val("boolean", {}, 1), Val("string", Attrs, 3), Val("list", {}, 1),
      Val("list", {"path"}, 2), Val("list", Attrs, 3) }

KindsNext(m) ==
    \/ \E f, c, k \in BOOLEAN : Construct(m, f, c, k)
    \/ \E rec \in Records, res \in ResultArgs, v \in AllKinds : Report(m, rec, res, v)
    \/ MakeWritable(m)
    \/ \E ok \in BOOLEAN : Write(m, ok)
    \/ MakeReadonly(m)

NextKinds == \E m \in OneMgr : KindsNext(m)

SpecKinds == InitFile /\ [][NextKinds]_vars

\* ------------------------------------------------------------------ claims
Triples == Records \X KnownResults

OnDisk(rec, res) == Has(Load(disk), rec, res)

StoredValues == {e \in disk : e.k = "val"}

\* the storage a report may touch
storage == <<data, ro, disk, lock, tableExists, rows, conn>>

\* the (result, value) pairs that pass the validation of report
Accepted(res, v) ==
    /\ res \in DOMAIN Schema
    /\ \/ ATTRS_BY_TYPE[Schema[res]] = {}
       \/ v.kind = "mapping"
       \/ v.kind \in {"string", "list"} /\ ATTRS_BY_TYPE[Schema[res]] \subseteq v.has

\* C1 as stated: one file-backed manager; a report to a triple that is
\* already stored returns false and leaves the in-memory data and the file
\* unchanged.  Taken for the reports whose outcome is the schema's intent:
\* the stored value carries every required attribute of the result's type
\* and the second value is a string.
C1_StoredTripleReturnsFalse ==
    [][\A m \in OneMgr, rec \in Records, res \in KnownResults, v \in Values :
          (Report(m, rec, res, v) /\ st[m] = "file" /\ OnDisk(rec, res)
             /\ ATTRS_BY_TYPE[Schema[res]] \subseteq Get(Load(disk), rec, res).has
             /\ v.kind = "string")
          => (ret'[m] = Ret("report", "false") /\ data' = data /\ disk' = disk)]_vars

\* C1 amended: one file-backed manager; a report to a triple that is already
\* stored leaves the in-memory data and the file unchanged and starts no
\* write; it returns false when the value passes validation and raises the
\* validation's error otherwise; and the value of the first report of a
\* triple that returned true stays the stored value, in memory and on disk.
C1_NoOverwrite ==
    [][\A m \in OneMgr :
          /\ \A rec \in Records, res \in ResultArgs, v \in Values :
                (Report(m, rec, res, v) /\ st[m] = "file"
                   /\ (Has(data[m], rec, res) \/ OnDisk(rec, res)))
                => /\ data' = data /\ disk' = disk /\ lock' = lock
                   /\ pc'[m].h = "idle"
                   /\ ret'[m].h = "report"
                   /\ IF Accepted(res, v)
                      THEN ret'[m].out = "false"
                      ELSE ret'[m].out \in {"SchemaError", "ValueError", "TypeError"}
          /\ \A t \in Triples :
                okval[t] # NULL
                => /\ okval'[t] = okval[t]
                   /\ Get(Load(disk'), t[1], t[2]) = okval[t]
                   /\ (st'[m] = "file" => Get(data'[m], t[1], t[2]) = okval[t])]_vars

\* a first report returned true, the second report, to the same triple,
\* returned false, and the file holds the first value
C1_Witness ==
    \E m \in OneMgr, t \in Triples :
        /\ st[m] = "file" /\ nrep[m] = 2
        /\ ret[m] = Ret("report", "false")
        /\ okval[t] # NULL
        /\ Get(Load(disk), t[1], t[2]) = okval[t]
        /\ Cardinality(StoredValues) = 1

\* C2: a report of a mapping that lacks a required attribute of the result's
\* type raises ValueError and writes nothing.
C2_PartialMappingRejected ==
    [][\A m \in OneMgr, rec \in Records, res \in KnownResults, v \in Values :
          (Report(m, rec, res, v) /\ ATTRS_BY_TYPE[Schema[res]] # {}
             /\ v.kind = "mapping" /\ ~(ATTRS_BY_TYPE[Schema[res]] \subseteq v.has))
          => (ret'[m] = Ret("report", "ValueError") /\ pc'[m].h = "idle"
              /\ UNCHANGED storage)]_vars

\* C3: on either back-end a report of a result identifier that the schema
\* does not declare raises SchemaError and starts no storage action: file
\* data in memory and on disk, the table, the lock and the connection are
\* unchanged and the manager is not left inside report.
C3_UnknownResultRejected ==
    [][\A m \in OneMgr, rec \in Records, res \in ResultArgs, v \in Values :
          (Report(m, rec, res, v) /\ res \notin DOMAIN Schema)
          => (ret'[m] = Ret("report", "SchemaError") /\ pc'[m].h = "idle"
              /\ UNCHANGED storage)]_vars

\* a relational manager's report ended with SchemaError
C3_Witness ==
    \E m \in OneMgr :
        /\ st[m] = "db" /\ pc[m].h = "idle" /\ nrep[m] > 0
        /\ ret[m] = Ret("report", "SchemaError")
        /\ Len(rows) > 0 /\ conn[m] = "Disconnected"

\* C4: one file-backed manager; after a report returned true the file, read
\* back, equals the manager's data; the file holds the reported value of
\* every triple whose report returned true; and a manager constructed over
\* the file holds that value.
C4_RoundTrip ==
    [][\A m \in OneMgr :
          /\ MakeReadonly(m) => Load(disk') = data'[m]
          /\ \A t \in Triples :
                okval'[t] # NULL => Get(Load(disk'), t[1], t[2]) = okval'[t]
          /\ \A t \in Triples :
                ((\E f, c, k \in BOOLEAN : Construct(m, f, c, k)) /\ okval[t] # NULL)
                => Get(data'[m], t[1], t[2]) = okval[t]]_vars

\* a manager constructed after a report returned true holds the value
C4_Witness ==
    \E m \in OneMgr, t \in Triples :
        /\ st[m] = "file" /\ ret[m] = Ret("construct", "file")
        /\ okval[t] # NULL /\ okval[t].kind = "mapping"
        /\ Get(data[m], t[1], t[2]) = okval[t]

\* C5: two file-backed managers; a report writes only a triple that the file,
\* as it is while the report holds the lock, does not hold yet, and no write
\* changes a value the file holds.
C5_NoOverwriteAcrossWriters ==
    [][\A m \in Mgrs :
          Write(m, TRUE)
          => /\ ~OnDisk(call[m].rec, call[m].res)
             /\ \A t \in Triples :
                   OnDisk(t[1], t[2])
                   => Get(Load(disk'), t[1], t[2]) = Get(Load(disk), t[1], t[2])]_vars

\* C6: relational back-end, one writer: the table never holds two rows with
\* one record_identifier, and between reports, for every (record, result)
\* that a report has returned true for, the one row of the record holds, in
\* the column of the result, the value of the latest such report (a mapping
\* as JSON).
C6_OneRowPerRecord ==
    /\ \A i, j \in 1..Len(rows) : rows[i].rid = rows[j].rid => i = j
    /\ \A t \in Triples :
          (latest[t] # NULL /\ \A m \in OneMgr : pc[m].h # "report")
          => \E i \in 1..Len(rows) :
                /\ rows[i].rid = t[1]
                /\ rows[i].cols[t[2]] =
                      (IF latest[t].kind = "mapping"
                       THEN Val("json", latest[t].has, latest[t].n) ELSE latest[t])

\* two reports for one record returned true and the record has one row
C6_Witness ==
    \E m \in OneMgr, rec \in Records :
        /\ st[m] = "db" /\ nrep[m] = 2 /\ ret[m].out = "true"
        /\ latest[<<rec, "alignment_rate">>] # NULL
        /\ latest[<<rec, "cover_image">>] # NULL
        /\ Cardinality({i \in 1..Len(rows) : rows[i].rid = rec}) = 1

\* C7: relational back-end: the table changes only inside a report, by the
\* INSERT of a row that holds the record identifier and null in every result
\* column, or by the UPDATE, which keeps the rows and their identifiers and
\* changes no column other than the reported result's on the rows of the
\* reported record.
C7_OneColumn ==
    [][rows' # rows
       => \E m \in OneMgr :
             /\ pc[m].h = "report"
             /\ \/ /\ pc[m].op = "insert"
                   /\ Len(rows') = Len(rows) + 1
                   /\ SubSeq(rows', 1, Len(rows)) = rows
                   /\ rows'[Len(rows')].rid = call[m].rec
                   /\ \A x \in KnownResults : rows'[Len(rows')].cols[x] = NULL
                \/ /\ pc[m].op = "update"
                   /\ Len(rows') = Len(rows)
                   /\ \A i \in 1..Len(rows) :
                         /\ rows'[i].rid = rows[i].rid
                         /\ \A x \in KnownResults :
                               rows'[i].cols[x] # rows[i].cols[x]
                               => (rows[i].rid = call[m].rec /\ x = call[m].res)]_vars

\* after a report that returned true the table holds a row with one result
\* column set and the other null, beside a row with every column null
C7_Witness ==
    \E m \in OneMgr, i, j \in 1..Len(rows) :
        /\ st[m] = "db" /\ ret[m] = Ret("report", "true") /\ nrep[m] = 1
        /\ i # j
        /\ rows[i].cols["alignment_rate"] # NULL /\ rows[i].cols["cover_image"] = NULL
        /\ \A x \in KnownResults : rows[j].cols[x] = NULL

CursorOpen(m) == pc[m].ph \in {"body", "exit"}

\* C8 as stated: the manager is Connected only while a db_cursor block is
\* executing.
C8_ConnectedOnlyInCursor ==
    \A m \in OneMgr :
        /\ conn[m] \in {"Disconnected", "Connected"}
        /\ conn[m] = "Connected" => CursorOpen(m)

\* C8 amended: the manager is Disconnected or Connected; it is Connected
\* while a db_cursor block is executing and otherwise only after a successful
\* direct call of establish_postgres_connection that no close and no cursor
\* block has followed; and when a cursor block ends, normally, by a failing
\* statement or by a failing connect, the manager is Disconnected.
C8_Lifecycle ==
    [][\A m \in OneMgr :
          /\ conn'[m] \in {"Disconnected", "Connected"}
          /\ CursorOpen(m)' => conn'[m] = "Connected"
          /\ conn'[m] = "Connected" => (CursorOpen(m)' \/ opened'[m] = "establish")
          /\ (pc[m].ph \in {"enter", "body", "exit"} /\ ~CursorOpen(m)')
             => conn'[m] = "Disconnected"]_vars

\* a report whose statement failed has ended and the manager is Disconnected
C8_Witness ==
    \E m \in OneMgr :
        /\ st[m] = "db" /\ pc[m].h = "idle"
        /\ ret[m].h = "report" /\ ret[m].out = "psycopg2.Error"
        /\ conn[m] = "Disconnected"

CursorHandlers == {"construct", "init_table", "report", "count"}

\* C9: a failed connect leaves the manager Disconnected; establish raises the
\* connection error, or returns false with suppress; a cursor-scoped
\* operation raises the connection error.
C9_ConnectErrorReachesCaller ==
    \A m \in OneMgr :
        (pc[m].h = "idle" /\ ret[m].connFail)
        => /\ conn[m] = "Disconnected"
           /\ ret[m].h = "establish" => ret[m].out = "psycopg2.Error"
           /\ ret[m].h = "establish_suppress" => ret[m].out = "false"
           /\ ret[m].h \in CursorHandlers => ret[m].out = "psycopg2.Error"

\* C10: with a working database, _init_postgres_table on a namespace that has
\* no table creates the table and returns true, and on a namespace that has
\* one returns false.
C10_TableCreatedOnce ==
    \A m \in OneMgr :
        (pc[m].h = "idle" /\ ret[m].h \in {"construct", "init_table"}
           /\ ret[m].out \notin {"psycopg2.Error", "PipestatDatabaseError",
                                 "MissingConfigDataError", "file"})
        => IF ret[m].absent
           THEN tableExists /\ ret[m].out \in {"true", "db"}
           ELSE ret[m].out \in {"false", "db"}

Constructing(m) == \E f, c, k \in BOOLEAN : Construct(m, f, c, k)

\* C11: the constructor arguments fix the back-end.  With a file path (with
\* or without a DB config path) the constructor yields a file-backed manager,
\* which is never Connected, never inside a cursor block and never changes
\* the table; with only a DB config path that holds every credential key it
\* takes the relational path (the table initialization) and a manager it
\* yields is relational-backed; with neither path, or with a DB config that
\* lacks a credential key, it raises MissingConfigDataError in the same step,
\* with no connection opened, no cursor block entered and the table
\* untouched; and no step outside a constructor changes a manager's back-end.
C11_BackendFixed ==
    [][\A m \in OneMgr :
          /\ (Constructing(m) /\ cfg[m].file)
             => /\ st'[m] = "file" /\ pc'[m].h = "idle"
                /\ ret'[m] = Ret("construct", "file")
          /\ (Constructing(m) /\ ~cfg[m].file /\ cfg[m].db /\ cfg[m].complete)
             => /\ st'[m] = "db"
                /\ At(m, "construct", "table_exists", "enter")'
          /\ (Constructing(m) /\ ~cfg[m].file /\ ~(cfg[m].db /\ cfg[m].complete))
             => /\ st'[m] = "none" /\ pc'[m].h = "idle"
                /\ ret'[m] = Ret("construct", "MissingConfigDataError")
          /\ (cfg[m].file \/ ~(cfg[m].db /\ cfg[m].complete))
             => /\ conn'[m] = "Disconnected" /\ opened'[m] = "none"
                /\ pc'[m].ph \notin {"body", "exit"}
                /\ tableExists' = tableExists /\ rows' = rows
          /\ (pc'[m].h = "idle" /\ ret'[m] = Ret("construct", "db")) => st'[m] = "db"
          /\ st'[m] \in {"none", IF cfg[m].file THEN "file" ELSE "db"}
          /\ (~Constructing(m) /\ pc[m].h # "construct") => st'[m] = st[m]]_vars

\* a manager constructed with a file path and a DB config path is
\* file-backed, and its establish_postgres_connection has raised
C11_Witness ==
    \E m \in OneMgr :
        /\ cfg[m].file /\ cfg[m].db
        /\ st[m] = "file" /\ conn[m] = "Disconnected"
        /\ ret[m] = Ret("establish", "PipestatDatabaseError")

\* the value a table column holds for a reported value (a mapping as JSON)
Stored(v) == IF v.kind = "mapping" THEN Val("json", v.has, v.n) ELSE v

\* C12: relational back-end: a report that passes validation enters
\* _report_postgres whatever the table holds; a report in which no statement
\* and no connect has failed goes on to its next statement or returns true,
\* and never returns false; and once its UPDATE has succeeded the row of the
\* record holds the reported value in the result's column, also where the
\* column held another value before.
C12_UpsertReturnsTrue ==
    [][\A m \in OneMgr :
          /\ \A rec \in Records, res \in ResultArgs, v \in Values :
                (Report(m, rec, res, v) /\ st[m] = "db" /\ Accepted(res, v))
                => /\ At(m, "report", "check_record", "enter")'
                   /\ call'[m] = [rec |-> rec, res |-> res, val |-> v]
          /\ (st[m] = "db" /\ pc[m].h = "report" /\ pc[m].ph = "body"
                /\ pc[m].op = "update" /\ DbBody(m, TRUE))
             => (pc'[m].err = ""
                 => \E i \in 1..Len(rows') :
                       /\ rows'[i].rid = call[m].rec
                       /\ rows'[i].cols[call[m].res] = Stored(call[m].val))
          /\ (DbExit(m) /\ pc[m].h = "report" /\ pc[m].err = "")
             => IF pc[m].op = "update"
                THEN /\ ret'[m] = Ret("report", "true") /\ pc'[m].h = "idle"
                     /\ \E i \in 1..Len(rows') :
                           /\ rows'[i].rid = call[m].rec
                           /\ rows'[i].cols[call[m].res] = Stored(call[m].val)
                ELSE pc'[m].h = "report" /\ pc'[m].ph = "enter"
          /\ (st'[m] = "db" /\ ret'[m].h = "report") => ret'[m].out # "false"]_vars

\* the UPDATE of a report has replaced the value of an earlier report that
\* returned true, and the report is about to return true
C12_Witness ==
    \E m \in OneMgr :
        /\ st[m] = "db" /\ At(m, "report", "update", "exit") /\ pc[m].err = ""
        /\ latest[<<call[m].rec, call[m].res>>] # NULL
        /\ latest[<<call[m].rec, call[m].res>>] # call[m].val
        /\ \E i \in 1..Len(rows) :
              /\ rows[i].rid = call[m].rec
              /\ rows[i].cols[call[m].res] = Stored(call[m].val)

\* manager m is inside a report whose existence check found no row and
\* whose INSERT has been committed
Inserted(m) ==
    /\ st[m] = "db" /\ pc[m].h = "report" /\ ~pc[m].res
    /\ \/ pc[m].op = "update"
       \/ pc[m].op = "insert" /\ pc[m].ph = "exit" /\ pc[m].err = ""

RowsOf(rec) == {i \in 1..Len(rows) : rows[i].rid = rec}

\* C13: relational back-end, two managers reporting to one record: the
\* existence check, the INSERT and the UPDATE are separate committed steps,
\* so both managers can be past a check that found no row; when both have
\* committed their INSERT the table holds two rows for the record, the
\* UPDATE of either then writes every row of the record, and an INSERT that
\* the database refuses adds no row and makes its report raise.
C13_DuplicateInsert ==
    /\ [](\A m, n \in Mgrs :
             (m # n /\ Inserted(m) /\ Inserted(n) /\ call[m].rec = call[n].rec)
             => Cardinality(RowsOf(call[m].rec)) >= 2)
    /\ [][\A m \in Mgrs :
             /\ (pc[m].h = "report" /\ pc[m].op = "insert" /\ DbBody(m, FALSE))
                => rows' = rows /\ pc'[m].err = "psycopg2.Error"
             /\ (pc[m].h = "report" /\ pc[m].op = "insert" /\ pc[m].err # ""
                   /\ DbExit(m))
                => /\ ret'[m] = Ret("report", pc[m].err) /\ pc'[m].h = "idle"
                   /\ rows' = rows]_vars

\* each manager has made one report, both have returned true, and the table,
\* empty at the start, holds two rows for the one record, each with the
\* columns of both UPDATEs
C13_Witness ==
    /\ \A m \in Mgrs :
          st[m] = "db" /\ pc[m].h = "idle" /\ ret[m] = Ret("report", "true")
             /\ nrep[m] = 1
    /\ Len(rows) = 2
    /\ \A i \in 1..Len(rows) :
          /\ rows[i].rid = "sample1"
          /\ \A x \in KnownResults : rows[i].cols[x] # NULL

\* C14: a statement that fails with a driver error changes nothing in the
\* table and ends its cursor block with that error; the block's exit then
\* closes the connection and the operation raises that error to its caller:
\* it neither returns a value nor goes on to its next statement.
C14_StatementErrorPropagates ==
    [][\A m \in OneMgr :
          /\ (pc[m].op # "create" /\ DbBody(m, FALSE))
             => /\ pc'[m].err = "psycopg2.Error" /\ pc'[m].ph = "exit"
                /\ rows' = rows /\ tableExists' = tableExists
          /\ (pc[m].err = "psycopg2.Error" /\ DbExit(m))
             => /\ ret'[m].h = pc[m].h /\ ret'[m].out = "psycopg2.Error"
                /\ pc'[m].h = "idle"
                /\ conn'[m] = "Disconnected"
                /\ rows' = rows /\ tableExists' = tableExists /\ latest' = latest
          /\ pc'[m].err # "" => pc'[m].ph = "exit"]_vars

\* the row count of a table that holds rows has raised the driver's error
\* and the manager is Disconnected
C14_Witness ==
    \E m \in OneMgr :
        /\ st[m] = "db" /\ pc[m].h = "idle" /\ tableExists /\ Len(rows) > 0
        /\ ret[m].h = "count" /\ ret[m].out = "psycopg2.Error" /\ ~ret[m].connFail
        /\ conn[m] = "Disconnected"

\* C15: two file-backed managers: the file changes only by the write of a
\* manager that holds the lock; that write stores the reported value and
\* leaves every other triple of the file as it is; when a report returns
\* true the file holds its value; and the file holds an entry for every
\* triple a report has returned true for, so after two reports of different
\* triples have returned true the file holds both.
C15_NoLostUpdate ==
    /\ [](\A t \in Triples : okval[t] # NULL => OnDisk(t[1], t[2]))
    /\ [][/\ disk' # disk => \E m \in Mgrs : Write(m, TRUE) /\ lock = m
          /\ \A m \in Mgrs :
                /\ Write(m, TRUE)
                   => /\ Get(Load(disk'), call[m].rec, call[m].res) = call[m].val
                      /\ \A t \in Triples :
                            (OnDisk(t[1], t[2]) /\ t # <<call[m].rec, call[m].res>>)
                            => /\ OnDisk(t[1], t[2])'
                               /\ Get(Load(disk'), t[1], t[2])
                                     = Get(Load(disk), t[1], t[2])
                /\ MakeReadonly(m)
                   => /\ ret'[m] = Ret("report", "true")
                      /\ Get(Load(disk'), call[m].rec, call[m].res) = call[m].val]_vars

\* each manager has made one report, of a triple of its own, both reports
\* have returned true and the file holds both values
C15_Witness ==
    /\ \A m \in Mgrs :
          st[m] = "file" /\ pc[m].h = "idle" /\ nrep[m] = 1
             /\ ret[m] = Ret("report", "true")
    /\ \A t \in WriterRecords \X KnownResults :
          okval[t] # NULL /\ Get(Load(disk), t[1], t[2]) = okval[t]
    /\ Cardinality(StoredValues) = 2

Establishing(m) == \E s, ok \in BOOLEAN : Establish(m, s, ok)

\* C16: establish_postgres_connection on a Connected manager raises
\* PipestatDatabaseError and keeps the connection; close_postgres_connection
\* on a Disconnected manager raises PipestatDatabaseError and the manager
\* stays Disconnected; on a file-backed manager establish, close and the
\* entry of a cursor block raise PipestatDatabaseError and connect nothing;
\* an establish from Disconnected whose connect succeeds returns true and
\* leaves the manager Connected, and a close from Connected leaves it
\* Disconnected.
C16_ConnectionGuards ==
    [][\A m \in OneMgr :
          /\ (Establishing(m) /\ st[m] = "db" /\ conn[m] = "Connected")
             => /\ ret'[m] = Ret("establish", "PipestatDatabaseError")
                /\ conn'[m] = "Connected" /\ opened'[m] = opened[m]
          /\ (Close(m) /\ st[m] = "db" /\ conn[m] = "Disconnected")
             => /\ ret'[m] = Ret("close", "PipestatDatabaseError")
                /\ conn'[m] = "Disconnected"
          /\ ((Establishing(m) \/ Close(m)) /\ st[m] = "file")
             => /\ ret'[m].out = "PipestatDatabaseError"
                /\ conn'[m] = "Disconnected" /\ conn[m] = "Disconnected"
          /\ ((\E ok \in BOOLEAN : DbEnter(m, ok)) /\ st[m] = "file")
             => /\ ret'[m].out = "PipestatDatabaseError" /\ pc'[m].h = "idle"
                /\ conn'[m] = "Disconnected"
          /\ (\E s \in BOOLEAN : Establish(m, s, TRUE) /\ st[m] = "db"
                                   /\ conn[m] = "Disconnected")
             => /\ ret'[m] = Ret("establish", "true")
                /\ conn'[m] = "Connected"
          /\ (Close(m) /\ st[m] = "db" /\ conn[m] = "Connected")
             => /\ ret'[m] = Ret("close", "none")
                /\ conn'[m] = "Disconnected"]_vars

\* an establish on a manager that a direct establish had connected has
\* raised, and the manager is still Connected
C16_Witness ==
    \E m \in OneMgr :
        /\ st[m] = "db" /\ pc[m].h = "idle"
        /\ conn[m] = "Connected" /\ opened[m] = "establish"
        /\ ret[m] = Ret("establish", "PipestatDatabaseError")

\* the report has passed validation: it goes on to the store or returns
\* false for a triple that is stored
PassedValidation(m) == pc'[m].h = "report" \/ ret'[m] = Ret("report", "false")

\* C17: for a result whose type has required attributes, a value of any kind
\* passes validation if it is a mapping or contains every required attribute
\* and is otherwise rejected with ValueError; for a result whose type has no
\* required attributes every value passes.
C17_ValidationOutcome ==
    [][\A m \in OneMgr, rec \in Records, res \in KnownResults, v \in AllKinds :
          Report(m, rec, res, v)
          => IF ATTRS_BY_TYPE[Schema[res]] = {}
             THEN PassedValidation(m)
             ELSE IF v.kind = "mapping" \/ ATTRS_BY_TYPE[Schema[res]] \subseteq v.has
             THEN PassedValidation(m)
             ELSE ret'[m] = Ret("report", "ValueError") /\ pc'[m].h = "idle"]_vars

\* C18: relational back-end, one manager, a report whose existence check
\* found no row: when the INSERT has been committed and the UPDATE block
\* then fails, at its connect or at its statement, the report raises, the
\* table keeps the one inserted row of the record with every result column
\* null, and _check_record finds the record; and a report whose existence
\* check finds the record goes to the UPDATE without an INSERT, so the
\* table gets a row only for a record it has no row of.
C18_InsertSurvivesFailedUpdate ==
    [][\A m \in OneMgr :
          /\ (st[m] = "db" /\ pc[m].h = "report" /\ pc[m].op = "update" /\ ~pc[m].res
                /\ pc'[m].h = "idle" /\ ret'[m].out # "true")
             => /\ ret'[m].h = "report"
                /\ ret'[m].out \in {"psycopg2.Error", "PipestatDatabaseError"}
                /\ latest' = latest
                /\ CheckRecord(rows', call[m].rec)
                /\ Cardinality({i \in 1..Len(rows') : rows'[i].rid = call[m].rec}) = 1
                /\ \A i \in 1..Len(rows') :
                      rows'[i].rid = call[m].rec => rows'[i].cols = NullCols
          /\ (DbExit(m) /\ pc[m].h = "report" /\ pc[m].op = "check_record"
                /\ pc[m].err = "" /\ CheckRecord(rows, call[m].rec))
             => pc'[m].op = "update"
          /\ Len(rows') > Len(rows)
             => /\ pc[m].h = "report" /\ pc[m].op = "insert"
                /\ ~CheckRecord(rows, call[m].rec)]_vars

\* the first report, for a record the table had no row of, has raised the
\* error of its UPDATE statement, and the table holds the record's row with
\* every result column null
C18_Witness ==
    \E m \in OneMgr :
        /\ st[m] = "db" /\ pc[m].h = "idle" /\ nrep[m] = 1
        /\ ret[m] = Ret("report", "psycopg2.Error")
        /\ \E i \in 1..Len(rows) : rows[i].rid = "sample2" /\ rows[i].cols = NullCols

\* C19: file back-end, two managers: at most one manager is writable, a
\* writable manager is the holder of the lock file, and a manager holds the
\* lock only inside a report, between its make_writable and its
\* make_readonly: a manager whose report has returned or raised holds none.
C19_LockOnlyInsideReport ==
    /\ \A m, n \in Mgrs : (~ro[m] /\ ~ro[n]) => m = n
    /\ \A m \in Mgrs : ~ro[m] => lock = m
    /\ \A m \in Mgrs :
          (lock = m \/ ~ro[m])
          => (pc[m].h = "report" /\ pc[m].ph \in {"write", "make_readonly"})

====
